---- MODULE Spec2Model ----
(***************************************************************************)
(* Physics and clustering engine of the particle cluster simulation:       *)
(* SimulationManager (src/js/simulation.js), ForceSystem (src/js/force.js) *)
(* and Particle (src/js/particle.js).                                      *)
(*                                                                         *)
(* Geometry.  All bodies lie on one horizontal line: position[i] is the x  *)
(* coordinate, the common y coordinate never changes because every pair    *)
(* force is parallel to the line.  Coordinates, velocities, masses and     *)
(* forces are integers; a JavaScript division is the integer division      *)
(* truncated toward zero (TruncDiv).                                       *)
(*                                                                         *)
(* One call of SimulationManager.update() is the sequence of steps         *)
(* BeginTick, Propagate, ForcePair (once per unordered pair, in loop       *)
(* order), CommitClusterStates, UpdateParticles; pc is the position of the *)
(* single thread inside that call.                                         *)
(***************************************************************************)
EXTENDS Integers, Sequences, FiniteSets, TLC

\* ------------------------------------------------------------------ bounds
MaxParticles == 4
MaxCoord == 6
MaxClusterCount == 3
MaxClusterTime == 4
MaxRodAcceleration == 1

\* ------------------------------------------------------------ basic values
\* The value of Math.min(repulsionTimer + undefined, maxRepulsionDelay).
NaN == -1

Abs(x) == IF x < 0 THEN -x ELSE x

Sign(x) == IF x > 0 THEN 1 ELSE IF x < 0 THEN -1 ELSE 0

Max(a, b) == IF a >= b THEN a ELSE b

\* JavaScript number division on the integer grid: truncated toward zero.
TruncDiv(a, b) == IF a >= 0 THEN a \div b ELSE -((-a) \div b)

RECURSIVE Pow(_, _)
Pow(b, e) == IF e = 0 THEN 1 ELSE b * Pow(b, e - 1)

Range(s) == {s[k] : k \in 1 .. Len(s)}

\* Set.add on an insertion-ordered Set.
SetAdd(s, e) == IF e \in Range(s) THEN s ELSE Append(s, e)

\* --------------------------------------------------------- configuration
\* config.current: the recognised options, on the integer grid.
BaseConfig ==
    [ particleCount |-> MaxParticles,
      initialMass |-> 3,
      minMass |-> 2,
      maxMass |-> 4,
      thresholdDistance |-> 3,
      attractionCoefficient |-> 8,
      repulsionCoefficient |-> 16,
      stickyForceCoefficient |-> 8,
      stickyForcePower |-> 2,
      repulsionDelay |-> 2,
      delayIncrease |-> 1,
      maxRepulsionDelay |-> 3,
      massGainRate |-> 1,
      massLossRate |-> 1,
      canvasWidth |-> MaxCoord,
      timeStep |-> 1,
      maxSpeed |-> 2,
      dampeningCoefficient |-> 0 ]

\* Two bodies alone on the canvas, with a stronger attraction.
TwoBodyConfigs ==
    { [BaseConfig EXCEPT !.particleCount = 2, !.attractionCoefficient = k] :
        k \in {12, 36} }

\* Two bodies alone on a wider canvas with a longer threshold distance, so
\* that a distance of the grid lies between 1 and 1.2 threshold distances.
WideConfig ==
    [BaseConfig EXCEPT !.particleCount = 2,
                       !.thresholdDistance = 6,
                       !.canvasWidth = MaxCoord + 1]

\* Three bodies on a narrow canvas with weak attraction and holding forces:
\* a cluster stays together until its repulsion starts.
ThreeBodyConfig ==
    [BaseConfig EXCEPT !.particleCount = 3,
                       !.attractionCoefficient = 1,
                       !.stickyForceCoefficient = 1,
                       !.canvasWidth = 4]

Configs ==
    { [BaseConfig EXCEPT !.massGainRate = g, !.dampeningCoefficient = c] :
        g \in {1, 2}, c \in {0, 1} }
    \cup TwoBodyConfigs \cup {WideConfig, ThreeBodyConfig}

\* ------------------------------------------------------------------ state
VARIABLES
    running,                 \* SimulationManager.running
    pc,                      \* position inside SimulationManager.update()
    pair,                    \* index of the next pair of the second pass
    config,                  \* config.current
    particles,               \* SimulationManager.particles, indexed by id
    tickStart,               \* history: particles as update() found them
    rod,                     \* a RodParticle examined on its own
    previousClusters,        \* ForceSystem.previousClusters
    currentClusters,         \* ForceSystem.currentClusters (insertion order)
    particleClusterMap,      \* ForceSystem.particleClusterMap
    clusterSizes,            \* ForceSystem.clusterSizes
    clusterCenters,          \* ForceSystem.clusterCenters
    clusterRepulsionStates,  \* ForceSystem.clusterRepulsionStates
    distinctClusterCount     \* ForceSystem.distinctClusterCount

vars == << running, pc, pair, config, particles, tickStart, rod,
           previousClusters, currentClusters, particleClusterMap, clusterSizes,
           clusterCenters, clusterRepulsionStates, distinctClusterCount >>

forceSystemVars == << previousClusters, currentClusters, particleClusterMap,
                      clusterSizes, clusterCenters, clusterRepulsionStates,
                      distinctClusterCount >>

\* The ids of the bodies: the factory numbers them 0, 1, ... in array order.
Ids == 0 .. (config.particleCount - 1)

\* ---------------------------------------------------------------- Particle
\* new Particle(x, y, mass) with the id the factory assigns.
NewParticle(id, x, m) ==
    [ id |-> id,
      position |-> x,
      velocity |-> 0,
      acceleration |-> 0,
      mass |-> m,
      clusterCount |-> 0,
      inCluster |-> FALSE,
      clusterTime |-> 0,
      clusterSize |-> 0,
      repulsionTimer |-> 0,
      shouldRepulse |-> FALSE,
      lastClusterSize |-> 0 ]

\* applyForce with the division by the mass left out.
ApplyForceUndivided(p, force) ==
    [p EXCEPT !.acceleration = @ + force]

\* Particle.applyForce: acceleration += force / mass.
ApplyForce(p, force) ==
    [p EXCEPT !.acceleration = @ + TruncDiv(force, p.mass)]

\* Particle.handleBoundaries on the x axis.
HandleBoundaries(x, cfg) ==
    IF x < 0 THEN cfg.canvasWidth
    ELSE IF x > cfg.canvasWidth THEN 0
    ELSE x

\* a < b on JavaScript numbers: false when either side is NaN.
NumLess(a, b) == a # NaN /\ b # NaN /\ a < b

\* updateMass that counts the repulsion timer up to repulsionDelay and never
\* sets shouldRepulse.
UpdateMassTimerOnly(p, cfg) ==
    IF p.inCluster
    THEN LET t == [p EXCEPT !.clusterTime = @ + 1]
             q == IF NumLess(t.repulsionTimer, cfg.repulsionDelay)
                  THEN [t EXCEPT !.repulsionTimer = @ + 1,
                                 !.shouldRepulse = FALSE]
                  ELSE t
         IN  IF q.mass < cfg.maxMass
             THEN [q EXCEPT !.mass = @ + cfg.massGainRate]
             ELSE q
    ELSE LET q == [p EXCEPT !.clusterTime = 0,
                            !.repulsionTimer = 0,
                            !.shouldRepulse = FALSE]
         IN  IF q.mass > cfg.minMass
             THEN [q EXCEPT !.mass = @ - cfg.massLossRate]
             ELSE q

\* Particle.updateMass: cluster time, repulsion timer, then mass gain or
\* loss.
UpdateMass(p, cfg) ==
    IF p.inCluster
    THEN LET t == [p EXCEPT !.clusterTime = @ + 1]
             q == IF NumLess(t.repulsionTimer, cfg.repulsionDelay)
                  THEN [t EXCEPT !.repulsionTimer = @ + 1,
                                 !.shouldRepulse = FALSE]
                  ELSE [t EXCEPT !.shouldRepulse = TRUE]
         IN  IF q.mass < cfg.maxMass
             THEN [q EXCEPT !.mass = @ + cfg.massGainRate]
             ELSE q
    ELSE LET q == [p EXCEPT !.clusterTime = 0,
                            !.repulsionTimer = 0,
                            !.shouldRepulse = FALSE]
         IN  IF q.mass > cfg.minMass
             THEN [q EXCEPT !.mass = @ - cfg.massLossRate]
             ELSE q

\* p5.Vector.limit on the line: clamp the speed to max.
Limit(v, max) == IF v * v > max * max THEN Sign(v) * max ELSE v

\* Particle.update: dampening, velocity, speed limit, position, boundaries,
\* mass.
UpdateParticle(p, cfg) ==
    LET damped == IF cfg.dampeningCoefficient > 0
                  THEN ApplyForce(p, -cfg.dampeningCoefficient * p.velocity)
                  ELSE p
        v == Limit(damped.velocity + damped.acceleration, cfg.maxSpeed)
        x == HandleBoundaries(damped.position + v * cfg.timeStep, cfg)
    IN  UpdateMass([damped EXCEPT !.velocity = v,
                                  !.position = x,
                                  !.acceleration = 0], cfg)

\* setInCluster with the reset of clusterSize on leaving a cluster left out.
SetInClusterKeepingSize(p, status, size, cfg) ==
    LET wasInCluster == p.inCluster
        q == IF status /\ ~wasInCluster
             THEN [p EXCEPT !.inCluster = TRUE,
                            !.shouldRepulse = FALSE,
                            !.repulsionTimer = 0]
             ELSE IF status /\ wasInCluster
             THEN [p EXCEPT !.repulsionTimer =
                                IF size > p.lastClusterSize THEN NaN ELSE @]
             ELSE IF ~status /\ wasInCluster
             THEN [p EXCEPT !.inCluster = FALSE,
                            !.shouldRepulse = FALSE,
                            !.repulsionTimer = 0]
             ELSE p
    IN  IF size > 0
        THEN [q EXCEPT !.lastClusterSize = size,
                       !.clusterSize = IF q.inCluster THEN size ELSE @]
        ELSE q

\* Particle.setInCluster(status, clusterSize, config).  The code reads
\* config.repulsionDelayIncrease, which no configuration record defines
\* (the option is delayIncrease), so the extended timer is NaN.
SetInCluster(p, status, size, cfg) ==
    LET wasInCluster == p.inCluster
        wasRepulsing == p.shouldRepulse
        q == IF status /\ ~wasInCluster
             THEN [p EXCEPT !.inCluster = TRUE,
                            !.shouldRepulse = FALSE,
                            !.repulsionTimer = 0]
             ELSE IF status /\ wasInCluster
             THEN [p EXCEPT !.repulsionTimer =
                                IF size > p.lastClusterSize THEN NaN ELSE @,
                            !.shouldRepulse = wasRepulsing]
             ELSE IF ~status /\ wasInCluster
             THEN [p EXCEPT !.inCluster = FALSE,
                            !.shouldRepulse = FALSE,
                            !.repulsionTimer = 0,
                            !.clusterSize = 0]
             ELSE p
    IN  IF size > 0
        THEN [q EXCEPT !.lastClusterSize = size,
                       !.clusterSize = IF q.inCluster THEN size ELSE @]
        ELSE q

\* Particle.incrementClusterCount.
IncrementClusterCount(p) == [p EXCEPT !.clusterCount = @ + 1]

\* Particle.setClusterSize.
SetClusterSize(p, size) ==
    [p EXCEPT !.clusterSize = size,
              !.lastClusterSize = Max(@, size)]

\* ------------------------------------------------------------- ForceSystem
\* distance < config.thresholdDistance * 0.8, in exact arithmetic.
CloseEnough(d, cfg) == 5 * d < 4 * cfg.thresholdDistance

\* The sticky range cut at the threshold distance itself, without the
\* factor 1.2.
InStickyRangeWithoutMargin(d, cfg) == d < cfg.thresholdDistance

\* distance < config.thresholdDistance * 1.2, in exact arithmetic.
InStickyRange(d, cfg) == 5 * d < 6 * cfg.thresholdDistance

\* [a, b].sort().join('-'), read back by split('-').map(parseInt): the pair
\* of ids, smaller first (ids have one digit, so the default string sort is
\* the numeric one).
ClusterID(a, b) == IF a <= b THEN << a, b >> ELSE << b, a >>

\* The pairs (i, j), i < j, in the order of the nested loops.
RECURSIVE PairsFrom(_, _, _)
PairsFrom(i, j, n) ==
    IF i >= n THEN << >>
    ELSE IF j >= n THEN PairsFrom(i + 1, i + 2, n)
    ELSE << << i, j >> >> \o PairsFrom(i, j + 1, n)

AllPairs == PairsFrom(0, 1, config.particleCount)

\* applyForces, first pass: the proximity edges in insertion order.  The
\* pass has no guard for distance 0.
RECURSIVE FirstPass(_, _, _)
FirstPass(ps, cfg, k) ==
    IF k = 0 THEN << >>
    ELSE LET prev == FirstPass(ps, cfg, k - 1)
             i == AllPairs[k][1]
             j == AllPairs[k][2]
             distance == Abs(ps[i].position - ps[j].position)
         IN  IF CloseEnough(distance, cfg)
             THEN SetAdd(prev, ClusterID(ps[i].id, ps[j].id))
             ELSE prev

\* find that stops at the parent of x instead of following the chain to the
\* root.
FindParentOnly(parent, x) == [parent |-> parent, root |-> parent[x]]

\* find with path compression: the root of x and the compressed parent
\* array.
RECURSIVE Find(_, _)
Find(parent, x) ==
    IF parent[x] = x
    THEN [parent |-> parent, root |-> x]
    ELSE LET r == Find(parent, parent[x])
         IN  [parent |-> [r.parent EXCEPT ![x] = r.root], root |-> r.root]

\* union that links x itself, not the root of x: parent[x] = find(y).
UnionWithoutRootOfX(parent, x, y) ==
    LET fy == Find(parent, y)
    IN  [fy.parent EXCEPT ![x] = fy.root]

\* union: parent[find(x)] = find(y).
Union(parent, x, y) ==
    LET fx == Find(parent, x)
        fy == Find(fx.parent, y)
    IN  [fy.parent EXCEPT ![fx.root] = fy.root]

\* The loop over this.currentClusters that unions the ends of every edge.
RECURSIVE UnionAll(_, _)
UnionAll(parent, edges) ==
    IF edges = << >> THEN parent
    ELSE UnionAll(Union(parent, Head(edges)[1], Head(edges)[2]), Tail(edges))

\* find(i) for i = 0 .. n-1, in order: the root of every particle.
RECURSIVE CollectRoots(_, _, _)
CollectRoots(parent, i, roots) ==
    IF i = config.particleCount THEN roots
    ELSE LET f == Find(parent, i)
         IN  CollectRoots(f.parent, i + 1, roots @@ (i :> f.root))

\* clusterMap.values() filtered to length > 1: the clusters in the order of
\* their smallest member.
RECURSIVE RealClustersFrom(_, _)
RealClustersFrom(roots, i) ==
    IF i = config.particleCount THEN << >>
    ELSE LET g == {j \in Ids : roots[j] = roots[i]}
         IN  (IF (\A j \in g : i <= j) /\ Cardinality(g) > 1
              THEN << g >> ELSE << >>)
             \o RealClustersFrom(roots, i + 1)

RECURSIVE SumPositions(_, _)
SumPositions(ps, g) ==
    IF g = {} THEN 0
    ELSE LET i == CHOOSE x \in g : TRUE
         IN  ps[i].position + SumPositions(ps, g \ {i})

\* identifyDistinctClusters, lines 277-334: from the parent array left by
\* the unions, the cluster index, size and center of every cluster, and
\* setClusterSize on its members.  A center is kept as the sum of the member
\* coordinates and their number.
ClusterInfo(ps, parent) ==
    LET roots == CollectRoots(parent, 0, [i \in {} |-> 0])
        realClusters == RealClustersFrom(roots, 0)
        indices == 0 .. (Len(realClusters) - 1)
        indexOf(i) == CHOOSE c \in indices : i \in realClusters[c + 1]
        clustered == {i \in Ids : \E c \in indices : i \in realClusters[c + 1]}
    IN  [ distinctClusterCount |-> Len(realClusters),
          clusterSizes |-> [c \in indices |-> Cardinality(realClusters[c + 1])],
          clusterCenters |->
              [c \in indices |->
                  [ sum |-> SumPositions(ps, realClusters[c + 1]),
                    n |-> Cardinality(realClusters[c + 1]) ]],
          particleClusterMap |-> [i \in clustered |-> indexOf(i)],
          particles |->
              [i \in Ids |->
                  IF i \in clustered
                  THEN SetClusterSize(ps[i],
                           Cardinality(realClusters[indexOf(i) + 1]))
                  ELSE ps[i]] ]

\* identifyDistinctClusters: every particle starts in its own set, the ends
\* of every edge are unioned in the insertion order of currentClusters.
IdentifyDistinctClusters(ps, edges) ==
    ClusterInfo(ps, UnionAll([i \in Ids |-> i], edges))

\* getDistinctClusterCount.
GetDistinctClusterCount == distinctClusterCount

\* getClusterSize(particleId).
GetClusterSize(particleId) ==
    IF particleId \notin DOMAIN particleClusterMap THEN 0
    ELSE clusterSizes[particleClusterMap[particleId]]

\* propagateRepulsionInClusters with the second loop left out: the state of
\* the cluster is stored, the members keep their flags.
PropagateStateOnly(ps, map) ==
    LET clusterIndices == {map[i] : i \in DOMAIN map}
        members(c) == {i \in DOMAIN map : map[i] = c}
    IN  [ clusterRepulsionStates |->
              [c \in clusterIndices |->
                  \E i \in members(c) : ps[i].shouldRepulse = TRUE],
          particles |-> ps ]

\* propagateRepulsionInClusters: the members of every cluster, the repulsion
\* state of the cluster, and the flag forced on every member of a repulsing
\* cluster.
PropagateRepulsionInClusters(ps, map) ==
    LET clusterIndices == {map[i] : i \in DOMAIN map}
        members(c) == {i \in DOMAIN map : map[i] = c}
        anyParticleShouldRepulse(c) ==
            \E i \in members(c) : ps[i].shouldRepulse = TRUE
    IN  [ clusterRepulsionStates |->
              [c \in clusterIndices |-> anyParticleShouldRepulse(c)],
          particles |->
              [i \in Ids |->
                  IF i \in DOMAIN map /\ anyParticleShouldRepulse(map[i])
                  THEN [ps[i] EXCEPT !.shouldRepulse = TRUE]
                  ELSE ps[i]] ]

\* getApproximateClusterSize: the edges that touch either particle, plus 1.
GetApproximateClusterSize(edges, id1, id2) ==
    Cardinality({k \in 1 .. Len(edges) :
                    \/ id1 \in {edges[k][1], edges[k][2]}
                    \/ id2 \in {edges[k][1], edges[k][2]}}) + 1

\* The branch selection with the radial branch left out: a pair inside a
\* repulsing cluster is held together.
ForceModeHoldingInCluster(p1, p2, cfg, map, states) ==
    LET d == Abs(p2.position - p1.position)
        p1InMap == p1.id \in DOMAIN map
        p2InMap == p2.id \in DOMAIN map
        p1ClusterShouldRepulse == p1InMap /\ states[map[p1.id]]
        p2ClusterShouldRepulse == p2InMap /\ states[map[p2.id]]
        sameCluster == p1InMap /\ p2InMap /\ map[p1.id] = map[p2.id]
        anyRepulse == p1ClusterShouldRepulse \/ p2ClusterShouldRepulse
    IN  IF d > cfg.thresholdDistance THEN "attraction"
        ELSE IF ~sameCluster /\ anyRepulse THEN "repulsion"
        ELSE "holding"

\* The branch of applyForceBetweenParticles taken for a pair at distance
\* d > 0: "attraction", "radial", "repulsion" or "holding".
ForceMode(p1, p2, cfg, map, states) ==
    LET d == Abs(p2.position - p1.position)
        p1InMap == p1.id \in DOMAIN map
        p2InMap == p2.id \in DOMAIN map
        p1ClusterShouldRepulse == p1InMap /\ states[map[p1.id]]
        p2ClusterShouldRepulse == p2InMap /\ states[map[p2.id]]
        sameCluster == p1InMap /\ p2InMap /\ map[p1.id] = map[p2.id]
        anyRepulse == p1ClusterShouldRepulse \/ p2ClusterShouldRepulse
    IN  IF d > cfg.thresholdDistance THEN "attraction"
        ELSE IF sameCluster /\ anyRepulse THEN "radial"
        ELSE IF ~sameCluster /\ anyRepulse THEN "repulsion"
        ELSE "holding"

\* The pair forces with the force on p2 not negated.
PairForcesNotNegated(p1, p2, cfg, map, states, centers) ==
    LET d == Abs(p2.position - p1.position)
        unit == Sign(p2.position - p1.position)
        mm == p1.mass * p2.mass
        mode == ForceMode(p1, p2, cfg, map, states)
        forceMagnitude ==
            IF mode = "attraction"
            THEN TruncDiv(cfg.attractionCoefficient * mm, d * d)
            ELSE IF mode = "holding"
            THEN TruncDiv(cfg.stickyForceCoefficient * mm,
                          2 * Pow(d, cfg.stickyForcePower))
            ELSE -TruncDiv(cfg.repulsionCoefficient * mm, d * d)
    IN  [f1 |-> unit * forceMagnitude, f2 |-> unit * forceMagnitude]

\* The force vectors applyForceBetweenParticles applies to p1 (f1) and to
\* p2 (f2) for a pair at distance d > 0.  In the radial branch each body is
\* pushed along its own direction from the cluster center and the pairwise
\* term computed there is not applied.
PairForces(p1, p2, cfg, map, states, centers) ==
    LET d == Abs(p2.position - p1.position)
        unit == Sign(p2.position - p1.position)
        mm == p1.mass * p2.mass
        mode == ForceMode(p1, p2, cfg, map, states)
        attraction ==
            TruncDiv(cfg.attractionCoefficient * mm, d * d)
            + (IF InStickyRange(d, cfg)
               THEN TruncDiv(cfg.stickyForceCoefficient * mm,
                             Pow(d, cfg.stickyForcePower))
               ELSE 0)
        repulsion == -TruncDiv(cfg.repulsionCoefficient * mm, d * d)
        holding == TruncDiv(cfg.stickyForceCoefficient * mm,
                            2 * Pow(d, cfg.stickyForcePower))
        hasCenter == p1.id \in DOMAIN map /\ map[p1.id] \in DOMAIN centers
        center == centers[map[p1.id]]
        radialForceMagnitude ==
            TruncDiv(cfg.repulsionCoefficient * mm, 2 * d * d)
        p1Direction == Sign(center.n * p1.position - center.sum)
        p2Direction == Sign(center.n * p2.position - center.sum)
    IN  IF mode = "radial" /\ hasCenter
        THEN [ f1 |-> p1Direction * radialForceMagnitude,
               f2 |-> p2Direction * radialForceMagnitude ]
        ELSE LET forceMagnitude ==
                     IF mode = "attraction" THEN attraction
                     ELSE IF mode = "holding" THEN holding
                     ELSE repulsion
             IN  [ f1 |-> unit * forceMagnitude,
                   f2 |-> -(unit * forceMagnitude) ]

\* applyForceBetweenParticles with the repulsion decided by the flags both
\* bodies carry when the pair is evaluated, not by the repulsion state of
\* their clusters.
ApplyForceByParticleFlags(ps, i, j, cfg, edges, map, states, centers) ==
    LET p1 == ps[i]
        p2 == ps[j]
        distance == Abs(p2.position - p1.position)
        flags == [c \in DOMAIN states |->
                     p1.shouldRepulse = TRUE /\ p2.shouldRepulse = TRUE]
        f == PairForces(p1, p2, cfg, map, flags, centers)
        q1 == ApplyForce(p1, f.f1)
        q2 == ApplyForce(p2, f.f2)
        newEdges == SetAdd(edges, ClusterID(p1.id, p2.id))
        clusterSize == GetApproximateClusterSize(newEdges, p1.id, p2.id)
    IN  IF distance = 0
        THEN [particles |-> ps, currentClusters |-> edges]
        ELSE IF CloseEnough(distance, cfg)
        THEN [ particles |->
                   [ps EXCEPT ![i] = SetInCluster(q1, TRUE, clusterSize, cfg),
                              ![j] = SetInCluster(q2, TRUE, clusterSize, cfg)],
               currentClusters |-> newEdges ]
        ELSE [ particles |-> [ps EXCEPT ![i] = q1, ![j] = q2],
               currentClusters |-> edges ]

\* applyForceBetweenParticles(p1, p2, config): the two forces, then, for a
\* pair closer than 0.8 * thresholdDistance, the edge and setInCluster on
\* both bodies with the approximate cluster size.  Nothing happens at
\* distance 0.
ApplyForceBetweenParticles(ps, i, j, cfg, edges, map, states, centers) ==
    LET p1 == ps[i]
        p2 == ps[j]
        distance == Abs(p2.position - p1.position)
        f == PairForces(p1, p2, cfg, map, states, centers)
        q1 == ApplyForce(p1, f.f1)
        q2 == ApplyForce(p2, f.f2)
        newEdges == SetAdd(edges, ClusterID(p1.id, p2.id))
        clusterSize == GetApproximateClusterSize(newEdges, p1.id, p2.id)
    IN  IF distance = 0
        THEN [particles |-> ps, currentClusters |-> edges]
        ELSE IF CloseEnough(distance, cfg)
        THEN [ particles |->
                   [ps EXCEPT ![i] = SetInCluster(q1, TRUE, clusterSize, cfg),
                              ![j] = SetInCluster(q2, TRUE, clusterSize, cfg)],
               currentClusters |-> newEdges ]
        ELSE [ particles |-> [ps EXCEPT ![i] = q1, ![j] = q2],
               currentClusters |-> edges ]

\* The commit with setInCluster called for the members of clusters only: a
\* body outside every cluster keeps the status it had.
CommitClusterMembersOnly(p, cfg, map, sizes) ==
    IF p.id \in DOMAIN map
    THEN SetInCluster(p, TRUE, sizes[map[p.id]], cfg)
    ELSE p

\* applyForces, lines 75-90: setInCluster on every particle with the
\* membership and size found by identifyDistinctClusters.
CommitClusterStatus(p, cfg, map, sizes) ==
    LET inCl == p.id \in DOMAIN map
        clusterSize == IF inCl THEN sizes[map[p.id]] ELSE 0
    IN  SetInCluster(p, inCl, clusterSize, cfg)

\* The count of new edges with only the first id of every edge looked at.
NewClusterFirstEnds(edges, previous, id) ==
    Cardinality({k \in 1 .. Len(edges) :
                    edges[k] \notin previous /\ id = edges[k][1]})

\* applyForces, lines 92-106: incrementClusterCount once on each end of
\* every edge of this tick that the previous tick did not have.
NewClusterEnds(edges, previous, id) ==
    Cardinality({k \in 1 .. Len(edges) :
                    edges[k] \notin previous /\ id \in {edges[k][1], edges[k][2]}})

RECURSIVE IncrementTimes(_, _)
IncrementTimes(p, n) ==
    IF n = 0 THEN p ELSE IncrementTimes(IncrementClusterCount(p), n - 1)

\* The cluster counts with the test against previousClusters left out.
UpdateClusterCountsEveryEdge(ps, edges, previous) ==
    [i \in Ids |-> IncrementTimes(ps[i], NewClusterEnds(edges, {}, i))]

UpdateClusterCounts(ps, edges, previous) ==
    [i \in Ids |-> IncrementTimes(ps[i], NewClusterEnds(edges, previous, i))]

\* ------------------------------------------------------- SimulationManager
\* A new ForceSystem.
NoClusters == [c \in {} |-> 0]

\* particleType 'circular': the batch holds no rod.
NoRod == [length |-> 0]

\* The coordinates random(canvasWidth) is taken to return: the two ends of
\* the canvas and two neighbouring points, enough to start with coincident
\* bodies, clustered bodies and bodies out of each other's reach.
StartCoords == {0, 2, 3, config.canvasWidth}

\* ParticleFactory.createParticleBatch: ids 0, 1, ... in array order, each
\* body at a coordinate inside the canvas with the initial mass.
CreateParticleBatch(xs, cfg) ==
    [i \in Ids |-> NewParticle(i, xs[i], cfg.initialMass)]

Init ==
    /\ running = FALSE
    /\ pc = "idle"
    /\ pair = 1
    /\ config \in Configs
    /\ \E xs \in [Ids -> StartCoords] :
           particles = CreateParticleBatch(xs, config)
    /\ tickStart = particles
    /\ rod = NoRod
    /\ previousClusters = {}
    /\ currentClusters = << >>
    /\ particleClusterMap = NoClusters
    /\ clusterSizes = NoClusters
    /\ clusterCenters = NoClusters
    /\ clusterRepulsionStates = NoClusters
    /\ distinctClusterCount = 0

\* SimulationManager.start.
Start ==
    /\ pc = "idle"
    /\ ~running
    /\ running' = TRUE
    /\ UNCHANGED << pc, pair, config, particles, tickStart, rod,
                    forceSystemVars >>

\* SimulationManager.pause.
Pause ==
    /\ pc = "idle"
    /\ running
    /\ running' = FALSE
    /\ UNCHANGED << pc, pair, config, particles, tickStart, rod,
                    forceSystemVars >>

\* SimulationManager.reset, which is initialize: new particles, a new
\* ForceSystem, running = false.
Reset ==
    /\ pc = "idle"
    /\ running' = FALSE
    /\ \E xs \in [Ids -> StartCoords] :
           particles' = CreateParticleBatch(xs, config)
    /\ tickStart' = particles'
    /\ previousClusters' = {}
    /\ currentClusters' = << >>
    /\ particleClusterMap' = NoClusters
    /\ clusterSizes' = NoClusters
    /\ clusterCenters' = NoClusters
    /\ clusterRepulsionStates' = NoClusters
    /\ distinctClusterCount' = 0
    /\ UNCHANGED << pc, pair, config, rod >>

\* A variant of BeginTick for an update() without the early return on
\* !running: the tick begins whether or not the simulation is running.
BeginTickWhileStopped ==
    /\ pc = "idle"
    /\ \A i \in Ids : /\ particles[i].clusterCount < MaxClusterCount
                       /\ particles[i].clusterTime < MaxClusterTime
    /\ LET edges == FirstPass(particles, config, Len(AllPairs))
           r == IdentifyDistinctClusters(particles, edges)
       IN  /\ currentClusters' = edges
           /\ particleClusterMap' = r.particleClusterMap
           /\ clusterSizes' = r.clusterSizes
           /\ clusterCenters' = r.clusterCenters
           /\ distinctClusterCount' = r.distinctClusterCount
           /\ particles' = r.particles
    /\ clusterRepulsionStates' = NoClusters
    /\ pc' = "propagate"
    /\ UNCHANGED << running, pair, config, tickStart, rod, previousClusters >>

\* update() while running, up to the end of identifyDistinctClusters: the
\* maps are cleared, the first pass collects the edges, the clusters are
\* identified.
BeginTick ==
    /\ pc = "idle"
    /\ running
    /\ \A i \in Ids : /\ particles[i].clusterCount < MaxClusterCount
                       /\ particles[i].clusterTime < MaxClusterTime
    /\ LET edges == FirstPass(particles, config, Len(AllPairs))
           r == IdentifyDistinctClusters(particles, edges)
       IN  /\ currentClusters' = edges
           /\ particleClusterMap' = r.particleClusterMap
           /\ clusterSizes' = r.clusterSizes
           /\ clusterCenters' = r.clusterCenters
           /\ distinctClusterCount' = r.distinctClusterCount
           /\ particles' = r.particles
    /\ clusterRepulsionStates' = NoClusters
    /\ pc' = "propagate"
    /\ UNCHANGED << running, pair, config, tickStart, rod, previousClusters >>

\* applyForces, line 65: propagateRepulsionInClusters.
Propagate ==
    /\ pc = "propagate"
    /\ LET r == PropagateRepulsionInClusters(particles, particleClusterMap)
       IN  /\ clusterRepulsionStates' = r.clusterRepulsionStates
           /\ particles' = r.particles
    /\ pc' = "forces"
    /\ pair' = 1
    /\ UNCHANGED << running, config, tickStart, rod, previousClusters,
                    currentClusters, particleClusterMap, clusterSizes,
                    clusterCenters, distinctClusterCount >>

\* The second pass with the outer loop left after its first iteration.
PhaseAfterFirstRow(k) == IF k < config.particleCount - 1 THEN "forces" ELSE "commit"

\* The phase after the pair with index k of the second pass: the loop goes
\* on until the last pair has been evaluated.
PhaseAfterPair(k) == IF k < Len(AllPairs) THEN "forces" ELSE "commit"

\* applyForces, second pass: one iteration of the inner loop.
ForcePair ==
    /\ pc = "forces"
    /\ LET r == ApplyForceBetweenParticles(particles, AllPairs[pair][1],
                    AllPairs[pair][2], config, currentClusters,
                    particleClusterMap, clusterRepulsionStates, clusterCenters)
       IN  /\ particles' = r.particles
           /\ currentClusters' = r.currentClusters
    /\ pc' = PhaseAfterPair(pair)
    /\ pair' = pair + 1
    /\ UNCHANGED << running, config, tickStart, rod, previousClusters,
                    particleClusterMap, clusterSizes, clusterCenters,
                    clusterRepulsionStates, distinctClusterCount >>

\* applyForces, lines 75-109: the cluster status of every particle, the
\* cluster counts, and the edges kept for the next tick.
CommitClusterStates ==
    /\ pc = "commit"
    /\ particles' =
           UpdateClusterCounts(
               [i \in Ids |-> CommitClusterStatus(particles[i], config,
                                  particleClusterMap, clusterSizes)],
               currentClusters, previousClusters)
    /\ previousClusters' = Range(currentClusters)
    /\ pc' = "update"
    /\ UNCHANGED << running, pair, config, tickStart, rod, currentClusters,
                    particleClusterMap, clusterSizes, clusterCenters,
                    clusterRepulsionStates, distinctClusterCount >>

\* update(), lines 101-104: particle.update on every particle.
UpdateParticles ==
    /\ pc = "update"
    /\ particles' = [i \in Ids |-> UpdateParticle(particles[i], config)]
    /\ tickStart' = particles'
    /\ pc' = "idle"
    /\ UNCHANGED << running, pair, config, rod, forceSystemVars >>

Next ==
    \/ Start
    \/ Pause
    \/ Reset
    \/ BeginTick
    \/ Propagate
    \/ ForcePair
    \/ CommitClusterStates
    \/ UpdateParticles

Spec == Init /\ [][Next]_vars

\* -------------------------------------------------------------- RodParticle
\* A rod is examined on its own, in the plane: its vectors are pairs.  Angles
\* are counted in quarter turns, so that cos and sin are integers; TWO_PI is
\* 4 quarter turns and the largest angular velocity is 1 quarter turn a tick.
TWO_PI == 4

MaxAngularVelocity == 1

Cos(a) == CASE a = 0 -> 1 [] a = 2 -> -1 [] OTHER -> 0

Sin(a) == CASE a = 1 -> 1 [] a = 3 -> -1 [] OTHER -> 0

VAdd(u, v) == << u[1] + v[1], u[2] + v[2] >>

VSub(u, v) == << u[1] - v[1], u[2] - v[2] >>

VMult(u, n) == << u[1] * n, u[2] * n >>

VDiv(u, n) == << TruncDiv(u[1], n), TruncDiv(u[2], n) >>

\* The magnitude of a vector with the square n, rounded up.
Mag(n) == CHOOSE k \in 0 .. n : k * k >= n /\ (k = 0 \/ (k - 1) * (k - 1) < n)

\* p5.Vector.limit in the plane.
VLimit(v, max) ==
    LET magSq == v[1] * v[1] + v[2] * v[2]
    IN  IF magSq > max * max THEN VDiv(VMult(v, max), Mag(magSq)) ELSE v

\* The JavaScript remainder a % b: the sign of a.
Rem(a, b) == a - b * TruncDiv(a, b)

\* p5 constrain.
Constrain(n, low, high) == IF n < low THEN low ELSE IF n > high THEN high ELSE n

\* The configuration of the rod's canvas: no other body, a mass that an
\* isolated rod loses down to minMass.
RodConfigs ==
    { [canvasHeight |-> 2, rodLength |-> 6]
      @@ [BaseConfig EXCEPT !.particleCount = 0,
                            !.minMass = 3,
                            !.canvasWidth = 2,
                            !.maxSpeed = 1,
                            !.dampeningCoefficient = c] : c \in {0, 1} }

\* The configuration of a canvas shared by a rod and one point body, with a
\* threshold distance of one grid step: two bodies that do not coincide are
\* never close enough to be marked as a cluster.
RodPairConfig ==
    [canvasHeight |-> 2, rodLength |-> 4]
    @@ [BaseConfig EXCEPT !.particleCount = 1,
                          !.minMass = 3,
                          !.thresholdDistance = 1,
                          !.attractionCoefficient = 4,
                          !.stickyForceCoefficient = 1,
                          !.canvasWidth = 2,
                          !.maxSpeed = 1]

\* RodParticle.calculateMomentOfInertia about one end of the rod: m * L^2 / 3.
MomentOfInertiaAboutEnd(r) == TruncDiv(r.mass * (r.length * r.length), 3)

\* RodParticle.calculateMomentOfInertia: (1/12) * m * L^2.
CalculateMomentOfInertia(r) == TruncDiv(r.mass * (r.length * r.length), 12)

\* RodParticle.updateMomentOfInertia.
UpdateMomentOfInertia(r) ==
    [r EXCEPT !.momentOfInertia = CalculateMomentOfInertia(r)]

\* updateEndpoints that moves pointA only.
UpdateEndpointA(r) ==
    LET halfLength == r.length \div 2
        dx == halfLength * Cos(r.angle)
        dy == halfLength * Sin(r.angle)
    IN  [r EXCEPT !.pointA = << r.position[1] + dx, r.position[2] + dy >>]

\* RodParticle.updateEndpoints.
UpdateEndpoints(r) ==
    LET halfLength == r.length \div 2
        dx == halfLength * Cos(r.angle)
        dy == halfLength * Sin(r.angle)
    IN  [r EXCEPT !.pointA = << r.position[1] + dx, r.position[2] + dy >>,
                  !.pointB = << r.position[1] - dx, r.position[2] - dy >>]

\* new RodParticle(x, y, length, angle, mass).
NewRod(x, y, length, angle, mass) ==
    LET r == [ position |-> << x, y >>,
               velocity |-> << 0, 0 >>,
               acceleration |-> << 0, 0 >>,
               mass |-> mass,
               inCluster |-> FALSE,
               clusterTime |-> 0,
               repulsionTimer |-> 0,
               shouldRepulse |-> FALSE,
               length |-> length,
               angle |-> angle,
               pointA |-> << 0, 0 >>,
               pointB |-> << 0, 0 >>,
               angularVelocity |-> 0,
               angularAcceleration |-> 0,
               momentOfInertia |-> 0 ]
    IN  UpdateEndpoints(UpdateMomentOfInertia(r))

\* Particle.applyForce on a body of the plane.
RodApplyForce(r, force) ==
    [r EXCEPT !.acceleration = VAdd(@, VDiv(force, r.mass))]

\* RodParticle.applyTorque.
ApplyTorque(r, torque) ==
    [r EXCEPT !.angularAcceleration = @ + TruncDiv(torque, r.momentOfInertia)]

\* RodParticle.applyForceAtPoint.
ApplyForceAtPoint(r, force, applicationPoint) ==
    LET q == RodApplyForce(r, force)
        arm == VSub(applicationPoint, q.position)
        torque == arm[1] * force[2] - arm[2] * force[1]
    IN  ApplyTorque(q, torque)

\* The square of the distance between two points of the plane.
DistSq(u, v) ==
    (u[1] - v[1]) * (u[1] - v[1]) + (u[2] - v[2]) * (u[2] - v[2])

\* getInteractionPoint with pointB returned only when it is strictly nearer
\* than the center and pointA.
GetInteractionPointStrictB(r, targetPosition) ==
    LET distToA == DistSq(targetPosition, r.pointA)
        distToCenter == DistSq(targetPosition, r.position)
        distToB == DistSq(targetPosition, r.pointB)
    IN  IF distToA <= distToCenter /\ distToA <= distToB THEN r.pointA
        ELSE IF distToB < distToCenter /\ distToB < distToA THEN r.pointB
        ELSE r.position

\* RodParticle.getInteractionPoint(targetPosition): pointA when it is at
\* most as far as the center and pointB, else pointB when it is at most as
\* far as the center and pointA, else the center.
GetInteractionPoint(r, targetPosition) ==
    LET distToA == DistSq(targetPosition, r.pointA)
        distToCenter == DistSq(targetPosition, r.position)
        distToB == DistSq(targetPosition, r.pointB)
    IN  IF distToA <= distToCenter /\ distToA <= distToB THEN r.pointA
        ELSE IF distToB <= distToCenter /\ distToB <= distToA THEN r.pointB
        ELSE r.position

\* handleBoundaries that wraps the x axis only.
RodHandleBoundariesXOnly(pos, cfg) == << HandleBoundaries(pos[1], cfg), pos[2] >>

\* Particle.handleBoundaries on both axes.
RodHandleBoundaries(pos, cfg) ==
    << HandleBoundaries(pos[1], cfg),
       IF pos[2] < 0 THEN cfg.canvasHeight
       ELSE IF pos[2] > cfg.canvasHeight THEN 0
       ELSE pos[2] >>

\* Particle.update on a rod: the linear motion, then RodParticle.updateMass.
RodLinearUpdate(r, cfg) ==
    LET damped == IF cfg.dampeningCoefficient > 0
                  THEN RodApplyForce(r, VMult(r.velocity,
                                              -cfg.dampeningCoefficient))
                  ELSE r
        v == VLimit(VAdd(damped.velocity, damped.acceleration), cfg.maxSpeed)
        x == RodHandleBoundaries(VAdd(damped.position, VMult(v, cfg.timeStep)),
                                 cfg)
    IN  UpdateMomentOfInertia(
            UpdateMass([damped EXCEPT !.velocity = v,
                                      !.position = x,
                                      !.acceleration = << 0, 0 >>], cfg))

\* new Particle(x, y, mass) with both coordinates kept.
PlanarParticle(id, x, y, m) ==
    [NewParticle(id, x, m) EXCEPT !.position = << x, y >>,
                                  !.velocity = << 0, 0 >>,
                                  !.acceleration = << 0, 0 >>]

\* Particle.update on a point body of the plane.
PlanarUpdate(p, cfg) ==
    LET damped == IF cfg.dampeningCoefficient > 0
                  THEN RodApplyForce(p, VMult(p.velocity,
                                              -cfg.dampeningCoefficient))
                  ELSE p
        v == VLimit(VAdd(damped.velocity, damped.acceleration), cfg.maxSpeed)
        x == RodHandleBoundaries(VAdd(damped.position, VMult(v, cfg.timeStep)),
                                 cfg)
    IN  UpdateMass([damped EXCEPT !.velocity = v,
                                  !.position = x,
                                  !.acceleration = << 0, 0 >>], cfg)

\* distance < config.thresholdDistance * 0.8 in the plane, on the squares.
PlanarCloseEnough(p1, p2, cfg) ==
    25 * DistSq(p1.position, p2.position)
        < 16 * cfg.thresholdDistance * cfg.thresholdDistance

\* The force applyForceBetweenParticles computes for p1 (p2 gets its
\* negation) when neither body is in a cluster: attraction above the
\* threshold distance, with the sticky term below 1.2 threshold distances,
\* and the holding force at or below it.  The direction is that of the
\* line from the position of p1 to the position of p2.
PlanarPairForce(p1, p2, cfg) ==
    LET diff == VSub(p2.position, p1.position)
        dsq == DistSq(p1.position, p2.position)
        mm == p1.mass * p2.mass
        sticky == TruncDiv(cfg.stickyForceCoefficient * mm,
                           Pow(dsq, cfg.stickyForcePower \div 2))
        forceMagnitude ==
            IF dsq > cfg.thresholdDistance * cfg.thresholdDistance
            THEN TruncDiv(cfg.attractionCoefficient * mm, dsq)
                 + (IF 25 * dsq < 36 * cfg.thresholdDistance * cfg.thresholdDistance
                    THEN sticky ELSE 0)
            ELSE sticky \div 2
    IN  VDiv(VMult(diff, forceMagnitude), Mag(dsq))

\* RodParticle.update.
RodUpdate(r, cfg) ==
    LET moved == RodLinearUpdate(r, cfg)
        damped == IF cfg.dampeningCoefficient > 0
                  THEN ApplyTorque(moved, -cfg.dampeningCoefficient
                                              * moved.angularVelocity)
                  ELSE moved
        w == Constrain(damped.angularVelocity + damped.angularAcceleration,
                       -MaxAngularVelocity, MaxAngularVelocity)
        turned == Rem(damped.angle + w * cfg.timeStep, TWO_PI)
        angle == IF turned < 0 THEN turned + TWO_PI ELSE turned
    IN  UpdateEndpoints(UpdateMomentOfInertia(
            [damped EXCEPT !.angularVelocity = w,
                           !.angle = angle,
                           !.angularAcceleration = 0]))

\* The forces tried on the rod: along the axes, of magnitude 3 or 4.
RodForces ==
    { << f, 0 >> : f \in {-4, -3, 3, 4} } \cup { << 0, f >> : f \in {-4, -3, 3, 4} }

\* A rod from the factory, alone on its canvas or with one point body on the
\* lower edge; the simulation has not been started.
RodInit ==
    /\ running = FALSE
    /\ pc = "idle"
    /\ pair = 1
    /\ config \in RodConfigs \cup {RodPairConfig}
    /\ \E xs \in [Ids -> 0 .. config.canvasWidth] :
           particles = [i \in Ids |->
                           PlanarParticle(i, xs[i], 0, config.initialMass)]
    /\ tickStart = particles
    /\ \E x \in 0 .. config.canvasWidth, y \in 0 .. config.canvasHeight,
          angle \in 0 .. (TWO_PI - 1),
          mass \in {config.initialMass, config.maxMass} :
           rod = NewRod(x, y, config.rodLength, angle, mass)
    /\ previousClusters = {}
    /\ currentClusters = << >>
    /\ particleClusterMap = NoClusters
    /\ clusterSizes = NoClusters
    /\ clusterCenters = NoClusters
    /\ clusterRepulsionStates = NoClusters
    /\ distinctClusterCount = 0

simulationVars == << running, pc, pair, config, particles, tickStart,
                     forceSystemVars >>

\* The accelerations a rod may have gathered before its next update.
RodWithinBounds(r) ==
    /\ Abs(r.acceleration[1]) <= MaxRodAcceleration
    /\ Abs(r.acceleration[2]) <= MaxRodAcceleration
    /\ Abs(r.angularAcceleration) <= MaxRodAcceleration

\* The variables of the simulation no call on a single body changes.
simulationFrame == << running, pair, config, forceSystemVars >>

\* A call of applyForce on a rod that is alone on its canvas.
RodForce ==
    /\ config.particleCount = 0
    /\ \E force \in RodForces :
          /\ RodWithinBounds(RodApplyForce(rod, force))
          /\ rod' = RodApplyForce(rod, force)
    /\ UNCHANGED simulationVars

\* A call of applyForceAtPoint on a rod that is alone on its canvas, at an
\* end or at the center.
RodForceAtPoint ==
    /\ config.particleCount = 0
    /\ \E force \in RodForces :
       \E point \in {rod.pointA, rod.pointB, rod.position} :
          /\ RodWithinBounds(ApplyForceAtPoint(rod, force, point))
          /\ rod' = ApplyForceAtPoint(rod, force, point)
    /\ UNCHANGED simulationVars

\* update() while running, first half, on a canvas with a point body (first
\* in the array) and the rod, not close enough to each other for an edge:
\* applyForces finds no cluster and applies the pair force, to the point
\* body and, negated, to the rod, each with applyForce.
RodPairForces ==
    /\ pc = "idle"
    /\ running
    /\ config.particleCount = 1
    /\ ~PlanarCloseEnough(particles[0], rod, config)
    /\ LET force == PlanarPairForce(particles[0], rod, config)
       IN  /\ RodWithinBounds(RodApplyForce(rod, VMult(force, -1)))
           /\ particles' = [particles EXCEPT ![0] = RodApplyForce(@, force)]
           /\ rod' = RodApplyForce(rod, VMult(force, -1))
    /\ pc' = "update"
    /\ UNCHANGED << tickStart, simulationFrame >>

\* A call of update on the rod: on its own when the rod is alone, and with
\* the update of the point body as the second half of update() otherwise.
RodTick ==
    /\ config.particleCount = 0 \/ pc = "update"
    /\ rod' = RodUpdate(rod, config)
    /\ particles' = [i \in Ids |-> PlanarUpdate(particles[i], config)]
    /\ tickStart' = particles'
    /\ pc' = "idle"
    /\ UNCHANGED simulationFrame

RodNext ==
    \/ Start
    \/ Pause
    \/ RodForce
    \/ RodForceAtPoint
    \/ RodPairForces
    \/ RodTick

RodSpec == RodInit /\ [][RodNext]_vars

\* ----------------------------------------------------------------- claims
\* The proximity edges of this tick, as a set.
EdgeSet == Range(currentClusters)

\* The unordered pairs of bodies closer than 0.8 * thresholdDistance.
ProximityEdges ==
    {e \in Ids \X Ids :
        /\ e[1] < e[2]
        /\ CloseEnough(Abs(particles[e[1]].position - particles[e[2]].position),
                       config)}

\* The bodies joined to a body of S by a path of edges of E.
RECURSIVE Reach(_, _)
Reach(S, E) ==
    LET T == S \cup {j \in Ids : \E i \in S : << i, j >> \in E \/ << j, i >> \in E}
    IN  IF T = S THEN S ELSE Reach(T, E)

\* The connected component of body i in this tick's proximity graph.
Component(i) == Reach({i}, EdgeSet)

\* The clusters of this tick: the components with at least 2 members.
TickClusters == {Component(i) : i \in {j \in Ids : Cardinality(Component(j)) >= 2}}

\* C1: at the end of every tick the mass of every body lies in
\* [minMass, maxMass].
C1_MassBounds ==
    pc = "idle" =>
        \A i \in Ids : /\ config.minMass <= particles[i].mass
                       /\ particles[i].mass <= config.maxMass

\* C2: propagation makes every member of a cluster with a repulsing member
\* repulse and stores true for the cluster; a cluster without one gets false
\* and keeps its members as they are; bodies outside any cluster are not
\* touched.
C2_PropagationAtomic ==
    [][pc = "propagate" =>
        /\ \A g \in TickClusters :
              LET had == \E i \in g : particles[i].shouldRepulse
                  state(i) == clusterRepulsionStates'[particleClusterMap[i]]
              IN  /\ had => \A i \in g : /\ particles'[i].shouldRepulse
                                         /\ state(i) = TRUE
                  /\ ~had => \A i \in g : /\ particles'[i] = particles[i]
                                          /\ state(i) = FALSE
        /\ \A i \in Ids :
              Cardinality(Component(i)) < 2 => particles'[i] = particles[i]
    ]_vars

\* C2 witness: the force pass is about to start and a member of a cluster of
\* at least 3 bodies carries a flag its own timer cannot have set.
C2_Witness ==
    /\ pc = "forces"
    /\ pair = 1
    /\ \E i \in Ids :
          /\ Cardinality(Component(i)) >= 3
          /\ particles[i].shouldRepulse
          /\ particles[i].repulsionTimer = 0

\* C3: while pairs remain to be evaluated in the force pass, no body's
\* inCluster, shouldRepulse or repulsionTimer changes.
C3_NoMidPassMutation ==
    [][pc = "forces" /\ pc' = "forces" =>
        \A i \in Ids :
            /\ particles'[i].inCluster = particles[i].inCluster
            /\ particles'[i].shouldRepulse = particles[i].shouldRepulse
            /\ particles'[i].repulsionTimer = particles[i].repulsionTimer
    ]_vars

\* C4: the phases of a tick run in strict sequence.  From the end of the
\* clustering pass to the integration the edge set is the complete proximity
\* edge set of the positions and the cluster map is the partition into
\* components; no force has been applied before the propagation is over and
\* every cluster has its repulsion state by then; every pair has been
\* evaluated before the commit and the integration; positions and velocities
\* change in the integration only.
C4_EdgesAndPartitionComplete ==
    pc \in {"propagate", "forces", "commit", "update"} =>
        /\ EdgeSet = ProximityEdges
        /\ {{i \in DOMAIN particleClusterMap : particleClusterMap[i] = c} :
               c \in DOMAIN clusterSizes} = TickClusters

C4_PropagationBeforeForces ==
    /\ (pc \in {"idle", "propagate"} \/ (pc = "forces" /\ pair = 1)) =>
           \A i \in Ids : particles[i].acceleration = 0
    /\ pc \in {"forces", "commit", "update"} =>
           DOMAIN clusterRepulsionStates = DOMAIN clusterSizes

C4_AllPairsBeforeIntegration ==
    pc \in {"commit", "update"} => pair = Len(AllPairs) + 1

C4_MotionOnlyInIntegration ==
    pc \in {"propagate", "forces", "commit"} =>
        \A i \in Ids : /\ particles'[i].position = particles[i].position
                       /\ particles'[i].velocity = particles[i].velocity

C4_PhaseOrder ==
    /\ []C4_EdgesAndPartitionComplete
    /\ []C4_PropagationBeforeForces
    /\ []C4_AllPairsBeforeIntegration
    /\ [][C4_MotionOnlyInIntegration]_vars

\* C4 witness: the integration is about to run in a tick with a cluster,
\* after forces have been accumulated on a body.
C4_Witness ==
    /\ pc = "update"
    /\ TickClusters # {}
    /\ \E i \in Ids : particles[i].acceleration # 0

\* C5: at the end of every tick clusterSize > 0 exactly for the bodies in a
\* cluster, and it is the number of bodies of the body's component.
C5_ClusterSizeExact ==
    pc = "idle" =>
        \A i \in Ids :
            /\ particles[i].clusterSize > 0 <=> particles[i].inCluster
            /\ particles[i].inCluster =>
                   particles[i].clusterSize = Cardinality(Component(i))

\* C5 witness: a tick has ended with a body in a cluster of 3 for which the
\* approximate size computed for one of its pairs is not 3.
C5_Witness ==
    /\ pc = "idle"
    /\ \E i, j \in Ids :
          /\ ClusterID(i, j) \in EdgeSet
          /\ i # j
          /\ particles[i].inCluster
          /\ particles[i].clusterSize = 3
          /\ GetApproximateClusterSize(currentClusters, i, j) # 3

\* C6: the cluster map joins exactly the bodies joined by a path of proximity
\* edges, a body without an edge is in no cluster, the distinct cluster count
\* is the number of components with at least 2 members, and getClusterSize
\* is the size of the body's component, 0 for a body in none.
C6_ClustersAreComponents ==
    /\ \A i, j \in Ids :
          i # j =>
              ((/\ i \in DOMAIN particleClusterMap
                /\ j \in DOMAIN particleClusterMap
                /\ particleClusterMap[i] = particleClusterMap[j])
               <=> j \in Component(i))
    /\ \A i \in Ids :
          (\A e \in EdgeSet : i \notin {e[1], e[2]}) =>
              i \notin DOMAIN particleClusterMap
    /\ GetDistinctClusterCount = Cardinality(TickClusters)
    /\ \A i \in Ids :
          GetClusterSize(i) = IF Cardinality(Component(i)) >= 2
                              THEN Cardinality(Component(i))
                              ELSE 0

\* C6 witness: the clustering pass has just run and has put two bodies in
\* one cluster that are joined by a path but by no edge.
C6_Witness ==
    /\ pc = "propagate"
    /\ \E i, j \in DOMAIN particleClusterMap :
          /\ i < j
          /\ particleClusterMap[i] = particleClusterMap[j]
          /\ << i, j >> \notin EdgeSet

\* The parent arrays left by unioning the pending edges of every state of S
\* in every order: S is a set of << pending edges, parent array >>.
RECURSIVE UnionInEveryOrder(_, _)
UnionInEveryOrder(S, n) ==
    IF n = 0 THEN S
    ELSE UnionInEveryOrder(
             UNION {{<< st[1] \ {e}, Union(st[2], e[1], e[2]) >> : e \in st[1]} :
                       st \in S},
             n - 1)

\* The partition into clusters and the cluster size of every clustered body,
\* with body k of the listing named rename[k].
ClusteringOutput(map, sizes, rename) ==
    [ partition |-> {{rename[i] : i \in {j \in DOMAIN map : map[j] = c}} :
                        c \in DOMAIN sizes},
      sizes |-> {<< rename[i], sizes[map[i]] >> : i \in DOMAIN map} ]

\* C7: the partition into clusters and the cluster sizes are the same for
\* every order in which the edges are unioned and for every order in which
\* the bodies are listed.
C7_ClusteringOrderIndependent ==
    pc = "propagate" =>
        LET same == [i \in Ids |-> i]
            here == ClusteringOutput(particleClusterMap, clusterSizes, same)
        IN  /\ \A st \in UnionInEveryOrder({<< EdgeSet, same >>},
                                           Cardinality(EdgeSet)) :
                  LET r == ClusterInfo(particles, st[2])
                  IN  ClusteringOutput(r.particleClusterMap, r.clusterSizes,
                                       same) = here
            /\ \A listing \in Permutations(Ids) :
                  LET qs == [k \in Ids |-> [particles[listing[k]] EXCEPT !.id = k]]
                      r == IdentifyDistinctClusters(
                               qs, FirstPass(qs, config, Len(AllPairs)))
                  IN  ClusteringOutput(r.particleClusterMap, r.clusterSizes,
                                       listing) = here

\* C7 witness: the clustering pass has just run on at least 3 edges, with two
\* bodies of one cluster joined by a path only.
C7_Witness ==
    /\ pc = "propagate"
    /\ Cardinality(EdgeSet) >= 3
    /\ \E i, j \in DOMAIN particleClusterMap :
          /\ i < j
          /\ particleClusterMap[i] = particleClusterMap[j]
          /\ << i, j >> \notin EdgeSet

\* The pair the force pass evaluates next, its mode and its two forces.
NextP1 == particles[AllPairs[pair][1]]

NextP2 == particles[AllPairs[pair][2]]

NextPairEvaluated == pc = "forces" /\ NextP1.position # NextP2.position

NextMode ==
    ForceMode(NextP1, NextP2, config, particleClusterMap, clusterRepulsionStates)

NextForces ==
    PairForces(NextP1, NextP2, config, particleClusterMap,
               clusterRepulsionStates, clusterCenters)

NewEdges == EdgeSet \ previousClusters

\* C9 as claimed: every new edge increments clusterCount for every body of
\* the component that contains the edge.
C9_WholeComponentIncremented ==
    [][pc = "commit" =>
        \A e \in NewEdges : \A i \in Component(e[1]) :
            particles'[i].clusterCount > particles[i].clusterCount
    ]_vars

\* C9 as amended: every new edge increments clusterCount once for each of
\* its two ends and for no other body; an edge present in both ticks
\* increments nothing.
C9_EndsIncremented ==
    [][pc = "commit" =>
        \A i \in Ids :
            particles'[i].clusterCount =
                particles[i].clusterCount
                + Cardinality({e \in NewEdges : i \in {e[1], e[2]}})
    ]_vars

\* C9 witness: the commit is about to run with a new edge in a component
\* that has a member which is an end of no new edge.
C9_Witness ==
    /\ pc = "commit"
    /\ \E e \in NewEdges : \E i \in Component(e[1]) :
          \A n \in NewEdges : i \notin {n[1], n[2]}

\* A step of reset: the simulation is stopped and every body is a newly
\* created one.
ResetStep ==
    /\ pc = "idle"
    /\ pc' = "idle"
    /\ ~running'
    /\ \A i \in Ids :
          particles'[i] = NewParticle(i, particles'[i].position, config.initialMass)

\* C10: apart from a reset, which creates new bodies, no step decreases a
\* clusterCount, and no step of a tick without a new edge changes one.
C10_Step ==
    \/ ResetStep
    \/ \A i \in Ids :
          /\ particles'[i].clusterCount >= particles[i].clusterCount
          /\ (pc # "commit" \/ NewEdges = {}) =>
                 particles'[i].clusterCount = particles[i].clusterCount

C10_ClusterCountMonotone == [][C10_Step]_vars

\* C10 witness: the commit is about to run in a tick whose edges were all
\* present in the previous tick, with a body that has been counted before.
C10_Witness ==
    /\ pc = "commit"
    /\ EdgeSet # {}
    /\ NewEdges = {}
    /\ \E i \in Ids : particles[i].clusterCount > 0

\* C11: a pair of bodies at the same position gets no proximity edge in a
\* tick, and two coincident bodies with no other body in reach are in no
\* cluster: the cluster map does not hold them and the commit leaves
\* inCluster false.
C11_CoincidentPairSkipped ==
    pc \in {"propagate", "forces", "commit", "update"} =>
        \A i, j \in Ids :
            (i < j /\ particles[i].position = particles[j].position) =>
                /\ << i, j >> \notin EdgeSet
                /\ (\A k \in Ids \ {i, j} :
                       ~CloseEnough(Abs(particles[k].position
                                        - particles[i].position), config))
                   => /\ i \notin DOMAIN particleClusterMap
                      /\ j \notin DOMAIN particleClusterMap
                      /\ pc = "update" => /\ ~particles[i].inCluster
                                          /\ ~particles[j].inCluster

\* C12: the update of a tick sets shouldRepulse to true on a clustered body
\* only when the body has already been in a cluster for repulsionDelay
\* consecutive ticks, whatever the sizes reported for its cluster.
C12_NoRepulsionBeforeDelay ==
    [][pc = "update" =>
        \A i \in Ids :
            (particles[i].inCluster /\ particles'[i].shouldRepulse) =>
                particles[i].clusterTime >= config.repulsionDelay
    ]_vars

\* The clusters of exactly 3 bodies of this tick.
TickClustersOf3 == {g \in TickClusters : Cardinality(g) = 3}

\* The repulsion timer is a number not below repulsionDelay.
TimerExpired(p) ==
    p.repulsionTimer # NaN /\ p.repulsionTimer >= config.repulsionDelay

\* When the force pass starts, every member of a cluster of 3 of which
\* `started` holds has shouldRepulse set.
AllRepulseAfterPropagation(started(_)) ==
    (pc = "forces" /\ pair = 1) =>
        \A g \in TickClustersOf3 :
            started(g) => \A i \in g : particles[i].shouldRepulse = TRUE

\* The evaluation of a pair of members of a repulsion-active cluster of 3
\* that lie within thresholdDistance of each other changes the acceleration
\* of each of the two in the direction from the cluster centroid through
\* that body, and not at all for a body at the centroid.
RadialPushInClustersOf3 ==
    (NextPairEvaluated /\ pair' = pair + 1) =>
        \A g \in TickClustersOf3 :
            (/\ NextP1.id \in g
             /\ NextP2.id \in g
             /\ clusterRepulsionStates[particleClusterMap[NextP1.id]]
             /\ Abs(NextP1.position - NextP2.position) <= config.thresholdDistance)
            => \A i \in {NextP1.id, NextP2.id} :
                   Sign(particles'[i].acceleration - particles[i].acceleration)
                       = Sign(3 * particles[i].position - SumPositions(particles, g))

\* C13 as claimed: if every member of a cluster of 3 starts a tick with
\* repulsionTimer >= repulsionDelay, all three have shouldRepulse after the
\* propagation of that tick, and the force pass pushes each member outward
\* along the line from the centroid through it.
C13_RepulsionWhenTimersExpired ==
    /\ []AllRepulseAfterPropagation(
             LAMBDA g : \A i \in g : TimerExpired(tickStart[i]))
    /\ [][RadialPushInClustersOf3]_vars

\* C13 as amended: if some member of a cluster of 3 starts a tick with
\* shouldRepulse set, all three have shouldRepulse after the propagation of
\* that tick, and the evaluation of every pair of members within
\* thresholdDistance pushes each of the two outward from the centroid (a
\* member at the centroid is not pushed).
C13_RepulsionWhenFlagged ==
    /\ []AllRepulseAfterPropagation(
             LAMBDA g : \E i \in g : tickStart[i].shouldRepulse = TRUE)
    /\ [][RadialPushInClustersOf3]_vars

\* C13 witness: the force pass is about to push apart two members of a
\* repulsion-active cluster of 3, a member of which started the tick with
\* the flag; the first body of the pair is not at the centroid.
C13_Witness ==
    /\ NextPairEvaluated
    /\ \E g \in TickClustersOf3 :
          /\ NextP1.id \in g
          /\ NextP2.id \in g
          /\ clusterRepulsionStates[particleClusterMap[NextP1.id]]
          /\ Abs(NextP1.position - NextP2.position) <= config.thresholdDistance
          /\ \E i \in g : tickStart[i].shouldRepulse = TRUE
          /\ 3 * NextP1.position # SumPositions(particles, g)

\* The unit vector along the rod.
RodAxis == << Cos(rod.angle), Sin(rod.angle) >>

\* C14: in every state of a rod, after any calls of applyForce,
\* applyForceAtPoint and update, pointA and pointB are position plus and minus
\* (length / 2) * (cos angle, sin angle) for the current position and angle,
\* the midpoint of pointA and pointB is position, and length is the length
\* the rod was created with.
C14_EndpointsCentered ==
    /\ rod.pointA = VAdd(rod.position, VMult(RodAxis, rod.length \div 2))
    /\ rod.pointB = VSub(rod.position, VMult(RodAxis, rod.length \div 2))
    /\ VAdd(rod.pointA, rod.pointB) = VMult(rod.position, 2)
    /\ rod.length = config.rodLength

\* C14 witness: the last update of the rod wrapped its center from the left
\* edge of the canvas to the right edge and turned the rod.
C14_Witness ==
    /\ rod.position[1] = config.canvasWidth
    /\ rod.velocity[1] < 0
    /\ rod.angularVelocity # 0

\* C15: applyForceAtPoint with a force of magnitude F perpendicular to the
\* rod axis, applied at pointA, changes angularAcceleration by 6F / (mL) in
\* magnitude and the linear acceleration by the force divided by the mass.
C15_OffCenterPush ==
    [][\A force \in RodForces :
          (/\ rod' = ApplyForceAtPoint(rod, force, rod.pointA)
           /\ force[1] * RodAxis[1] + force[2] * RodAxis[2] = 0)
          => LET F == Abs(force[1]) + Abs(force[2])
             IN  /\ Abs(rod'.angularAcceleration - rod.angularAcceleration)
                        = TruncDiv(6 * F, rod.mass * rod.length)
                 /\ VSub(rod'.acceleration, rod.acceleration)
                        = VDiv(force, rod.mass)
    ]_vars

\* C15 witness: a force perpendicular to the axis has been applied at pointA
\* of a rod with a current moment of inertia: the rod has a linear
\* acceleration across its axis and an angular acceleration of the matching
\* sense.
C15_Witness ==
    /\ rod.acceleration[1] * RodAxis[1] + rod.acceleration[2] * RodAxis[2] = 0
    /\ rod.angularAcceleration
           * (RodAxis[1] * rod.acceleration[2] - RodAxis[2] * rod.acceleration[1]) > 0
    /\ rod.momentOfInertia = CalculateMomentOfInertia(rod)

\* ------------------------------------------------------------------- C16
\* Two bodies alone on the canvas, as the tick found them: at rest, of equal
\* mass, at twice the threshold distance, without dampening, and with an
\* attraction small enough for the speed limit.
TwoBodiesAtRestApart ==
    /\ config.particleCount = 2
    /\ config.dampeningCoefficient = 0
    /\ tickStart[0].velocity = 0
    /\ tickStart[1].velocity = 0
    /\ tickStart[0].mass = tickStart[1].mass
    /\ Abs(tickStart[1].position - tickStart[0].position)
           = 2 * config.thresholdDistance
    /\ config.attractionCoefficient * tickStart[0].mass
           <= config.maxSpeed * 4 * config.thresholdDistance
                  * config.thresholdDistance

\* k * m / (d * d) for the two bodies of TwoBodiesAtRestApart.
TwoBodySpeed ==
    TruncDiv(config.attractionCoefficient * tickStart[0].mass,
             4 * config.thresholdDistance * config.thresholdDistance)

\* C16: two bodies of equal mass m at rest at distance d = 2 *
\* thresholdDistance, without dampening and with k * m / (d * d) <= maxSpeed,
\* leave the tick each with a velocity of magnitude k * m / (d * d) that
\* points toward the other body.
C16_TwoBodyAttraction ==
    [][(pc = "update" /\ pc' = "idle" /\ TwoBodiesAtRestApart) =>
          /\ particles'[0].velocity =
                 Sign(tickStart[1].position - tickStart[0].position)
                     * TwoBodySpeed
          /\ particles'[1].velocity =
                 Sign(tickStart[0].position - tickStart[1].position)
                     * TwoBodySpeed]_vars

\* C16 witness: the force pass of such a tick is over and has pulled the two
\* bodies toward each other; the integration step is about to run.
C16_Witness ==
    /\ pc = "update"
    /\ TwoBodiesAtRestApart
    /\ TwoBodySpeed > 0
    /\ particles[0].acceleration * particles[1].acceleration < 0

\* ------------------------------------------------------------------- C17
\* The repulsion timer t after one more clustered tick: one more while it is
\* below repulsionDelay.
TimerAfterTick(t) == IF t < config.repulsionDelay THEN t + 1 ELSE t

\* The repulsion timer t extended by delayIncrease, capped at
\* maxRepulsionDelay.
TimerExtended(t) ==
    IF t + config.delayIncrease <= config.maxRepulsionDelay
    THEN t + config.delayIncrease
    ELSE config.maxRepulsionDelay

\* The timers the tick may leave a body that stays clustered and started the
\* tick with timer t: the extension (when the cluster is larger than in the
\* previous tick) and the tick's increment, in either order.
ScheduledTimers(i) ==
    LET t == tickStart[i].repulsionTimer
        grew == clusterSizes[particleClusterMap[i]] > tickStart[i].clusterSize
    IN  IF grew
        THEN {TimerAfterTick(TimerExtended(t)), TimerExtended(TimerAfterTick(t))}
        ELSE {TimerAfterTick(t)}

\* C17: a body that stays clustered from one tick to the next, and whose
\* timer was a number when the tick began, ends the tick with its timer one
\* higher while it was below repulsionDelay, extended by delayIncrease
\* (capped at maxRepulsionDelay) exactly when its cluster is larger than in
\* the previous tick.
C17_TimerSchedule ==
    [][(pc = "update" /\ pc' = "idle") =>
          \A i \in Ids :
              (/\ tickStart[i].inCluster
               /\ tickStart[i].repulsionTimer # NaN
               /\ i \in DOMAIN particleClusterMap)
              => particles'[i].repulsionTimer \in ScheduledTimers(i)]_vars

\* ------------------------------------------------------------------- C18
\* C18: once the cluster status of a tick is committed, and so at the end of
\* the tick, every body outside the clusters of that tick has repulsionTimer
\* 0 and shouldRepulse false, also when it was in a cluster the tick before.
C18_IsolatedBodiesReset ==
    pc \in {"update", "idle"} =>
        \A i \in Ids :
            i \notin DOMAIN particleClusterMap =>
                /\ particles[i].repulsionTimer = 0
                /\ particles[i].shouldRepulse = FALSE

\* C18 witness: a body that began the tick in a cluster, with a running
\* timer, is outside the clusters of this tick and its status has been
\* committed.
C18_Witness ==
    /\ pc = "update"
    /\ \E i \in Ids :
           /\ tickStart[i].inCluster
           /\ tickStart[i].repulsionTimer # 0
           /\ i \notin DOMAIN particleClusterMap
           /\ ~particles[i].inCluster

\* ------------------------------------------------------------------- C19
\* C19: a body that was outside every cluster when the tick began and is in
\* a cluster of this tick has shouldRepulse false and repulsionTimer 0 once
\* its cluster status is committed, whatever propagation did to its flag.
C19_NewMemberStartsFresh ==
    pc = "update" =>
        \A i \in Ids :
            (~tickStart[i].inCluster /\ i \in DOMAIN particleClusterMap) =>
                /\ particles[i].shouldRepulse = FALSE
                /\ particles[i].repulsionTimer = 0

\* ------------------------------------------------------------------- C20
\* The cluster of body i in this tick: its component when it has at least 2
\* members, nothing otherwise.
ClusterOf(i) == IF Cardinality(Component(i)) >= 2 THEN Component(i) ELSE {}

\* A cluster is repulsion-active in a tick when a member entered the tick
\* with shouldRepulse set.
RepulsionActive(g) == \E m \in g : tickStart[m].shouldRepulse = TRUE

\* The force mode of the pair (i, j), d > 0, in the words of the rule: by
\* the distance, the clusters of the two bodies and their activity.
ModeByRule(i, j) ==
    LET d == Abs(particles[j].position - particles[i].position)
    IN  IF d > config.thresholdDistance THEN "attraction"
        ELSE IF ~RepulsionActive(ClusterOf(i)) /\ ~RepulsionActive(ClusterOf(j))
        THEN "holding"
        ELSE IF ClusterOf(i) = ClusterOf(j) THEN "radial"
        ELSE "repulsion"

\* The attractive force on the first body of the pair (i, j) farther apart
\* than the threshold distance: the inverse-square term, and the sticky term
\* below 1.2 threshold distances only.
AttractionByRule(i, j) ==
    LET d == Abs(particles[j].position - particles[i].position)
        mm == particles[i].mass * particles[j].mass
    IN  Sign(particles[j].position - particles[i].position)
            * (TruncDiv(config.attractionCoefficient * mm, d * d)
               + (IF 5 * d < 6 * config.thresholdDistance
                  THEN TruncDiv(config.stickyForceCoefficient * mm,
                                Pow(d, config.stickyForcePower))
                  ELSE 0))

\* The pairs of cluster g at a distance above 0 and within the threshold.
PairsWithinThreshold(g) ==
    {e \in g \X g :
        /\ e[1] < e[2]
        /\ particles[e[1]].position # particles[e[2]].position
        /\ Abs(particles[e[2]].position - particles[e[1]].position)
               <= config.thresholdDistance}

RadialTerm(p) ==
    LET d == Abs(NextP2.position - NextP1.position)
        center == clusterCenters[particleClusterMap[p.id]]
    IN  Sign(center.n * p.position - center.sum)
            * TruncDiv(config.repulsionCoefficient * NextP1.mass * NextP2.mass,
                       2 * d * d)

\* The direct repulsion of magnitude 0.3 * repulsionCoefficient * m1 * m2 /
\* d^2 on body p of the pair evaluated next, directed away from body q.
DirectTerm(p, q) ==
    LET d == Abs(NextP2.position - NextP1.position)
    IN  Sign(p.position - q.position)
            * TruncDiv(3 * config.repulsionCoefficient * NextP1.mass * NextP2.mass,
                       10 * d * d)

\* C21: when a pair within the threshold of one repulsion-active cluster is
\* evaluated, each of its bodies is accelerated by the radial force from the
\* cluster center and by the direct pairwise repulsion of 0.3 strength.
C21_RadialAndDirectRepulsion ==
    [][(NextPairEvaluated /\ NextMode = "radial" /\ pair' = pair + 1) =>
          /\ particles'[NextP1.id].acceleration - NextP1.acceleration
                 = TruncDiv(RadialTerm(NextP1), NextP1.mass)
                   + TruncDiv(DirectTerm(NextP1, NextP2), NextP1.mass)
          /\ particles'[NextP2.id].acceleration - NextP2.acceleration
                 = TruncDiv(RadialTerm(NextP2), NextP2.mass)
                   + TruncDiv(DirectTerm(NextP2, NextP1), NextP2.mass)]_vars

\* ------------------------------------------------------------------- C22
\* C22: when the force pass applies the pair force to the rod, the rod is
\* left as applyForceAtPoint leaves it, with the force applied at the rod's
\* interaction point for the position of the other body: a force across the
\* axis at an end of the rod turns into angular acceleration.
C22_PairForceAtInteractionPoint ==
    [][(pc = "idle" /\ pc' = "update" /\ config.particleCount = 1) =>
          rod' = ApplyForceAtPoint(
                     rod,
                     VMult(PlanarPairForce(particles[0], rod, config), -1),
                     GetInteractionPoint(rod, particles[0].position))]_vars

\* ------------------------------------------------------------------- C23
\* The position of the point body that shares the canvas with the rod.
RodTarget == particles[0].position

\* The smallest of the squared distances from the target to pointA, to the
\* center and to pointB.
NearestDistSq ==
    LET ds == { DistSq(RodTarget, rod.pointA), DistSq(RodTarget, rod.position),
                DistSq(RodTarget, rod.pointB) }
    IN  CHOOSE d \in ds : \A e \in ds : d <= e

\* C23 as claimed: getInteractionPoint returns pointA when it is at most as
\* far from the target as both other points, otherwise pointB only when it
\* is strictly nearer than both other points, otherwise the center.
C23_StrictForPointB ==
    config.particleCount = 1 =>
        GetInteractionPoint(rod, RodTarget) =
            IF DistSq(RodTarget, rod.pointA) = NearestDistSq THEN rod.pointA
            ELSE IF /\ DistSq(RodTarget, rod.pointB) < DistSq(RodTarget, rod.position)
                    /\ DistSq(RodTarget, rod.pointB) < DistSq(RodTarget, rod.pointA)
            THEN rod.pointB
            ELSE rod.position

\* C23, amended: getInteractionPoint returns the point nearest to the
\* target among pointA, pointB and the center, and on a tie pointA before
\* pointB before the center; pointB wins a tie with the center.
C23_NearestPointWithTies ==
    config.particleCount = 1 =>
        GetInteractionPoint(rod, RodTarget) =
            IF DistSq(RodTarget, rod.pointA) = NearestDistSq THEN rod.pointA
            ELSE IF DistSq(RodTarget, rod.pointB) = NearestDistSq THEN rod.pointB
            ELSE rod.position

\* C23 witness: pointB and the center are equally near the target, pointA is
\* farther, and the interaction point is pointB.
C23_Witness ==
    /\ config.particleCount = 1
    /\ DistSq(RodTarget, rod.pointB) = DistSq(RodTarget, rod.position)
    /\ DistSq(RodTarget, rod.pointA) > DistSq(RodTarget, rod.position)
    /\ rod.pointB # rod.position
    /\ GetInteractionPoint(rod, RodTarget) = rod.pointB

\* ------------------------------------------------------------------- C24
\* A position inside the canvas, edges included.
InsideCanvas(pos) ==
    /\ 0 <= pos[1] /\ pos[1] <= config.canvasWidth
    /\ 0 <= pos[2] /\ pos[2] <= config.canvasHeight

\* The coordinate a body that integrated to x re-enters the canvas at: the
\* opposite edge when x is below 0 or above the bound.
ReEntered(x, bound) == IF x < 0 THEN bound ELSE IF x > bound THEN 0 ELSE x

\* Body b has moved to where b2 is: from its position by its new velocity,
\* re-entering at the opposite edge on each axis it left the canvas on.
MovedWithReEntry(b, b2) ==
    LET integrated == VAdd(b.position, VMult(b2.velocity, config.timeStep))
    IN  b2.position = << ReEntered(integrated[1], config.canvasWidth),
                         ReEntered(integrated[2], config.canvasHeight) >>

BodiesInsideCanvas ==
    /\ InsideCanvas(rod.position)
    /\ \A i \in Ids : InsideCanvas(particles[i].position)

MovesReEnter ==
    /\ rod'.position # rod.position => MovedWithReEntry(rod, rod')
    /\ \A i \in Ids :
           particles'[i].position # particles[i].position =>
               MovedWithReEntry(particles[i], particles'[i])

\* C24: every body, rod or point body, is inside the canvas on both axes at
\* the end of every tick, and a body whose integrated position leaves the
\* canvas on an axis re-enters at the opposite edge of that axis in the same
\* tick.
C24_PositionsInsideCanvas == []BodiesInsideCanvas /\ [][MovesReEnter]_vars

\* C24 witness: a rod moving downward is on the upper edge of the canvas,
\* where it re-entered after leaving through the lower edge.
C24_Witness ==
    /\ rod.position[2] = config.canvasHeight
    /\ rod.velocity[2] < 0

\* ------------------------------------------------------------------- C25
\* C25: between ticks the repulsionTimer of every body is a number from 0 to
\* maxRepulsionDelay, never not-a-number.
C25_TimerIsBoundedNumber ==
    pc = "idle" =>
        \A i \in Ids :
            /\ particles[i].repulsionTimer # NaN
            /\ 0 <= particles[i].repulsionTimer
            /\ particles[i].repulsionTimer <= config.maxRepulsionDelay

\* ------------------------------------------------------------------- C26
\* Body p has been in a cluster at the end of at least repulsionDelay + 1
\* ticks in a row.
ClusteredLongEnough(p) ==
    p.inCluster /\ p.clusterTime >= config.repulsionDelay + 1

\* C26: a body that has remained in a cluster for repulsionDelay + 1
\* consecutive ticks or more has shouldRepulse set between ticks, and when it
\* is still in a cluster in the next tick that cluster is repulsion-active
\* in the force pass.
C26_RepulsionAfterDelay ==
    /\ pc = "idle" =>
           \A i \in Ids :
               ClusteredLongEnough(particles[i]) =>
                   particles[i].shouldRepulse = TRUE
    /\ pc = "forces" =>
           \A i \in DOMAIN particleClusterMap :
               ClusteredLongEnough(tickStart[i]) =>
                   clusterRepulsionStates[particleClusterMap[i]] = TRUE

\* C26 witness: between ticks, a body whose timer counted up to
\* repulsionDelay has been clustered for repulsionDelay + 1 ticks and has
\* shouldRepulse set.
C26_Witness ==
    /\ pc = "idle"
    /\ \E i \in Ids :
           /\ particles[i].inCluster
           /\ particles[i].clusterTime = config.repulsionDelay + 1
           /\ particles[i].repulsionTimer = config.repulsionDelay
           /\ particles[i].shouldRepulse = TRUE

\* ------------------------------------------------------------------- C27
\* C27: between ticks all members of one cluster of the last tick have the
\* same shouldRepulse value.
C27_UniformFlagsBetweenTicks ==
    pc = "idle" =>
        \A i, j \in DOMAIN particleClusterMap :
            particleClusterMap[i] = particleClusterMap[j] =>
                particles[i].shouldRepulse = particles[j].shouldRepulse

\* ------------------------------------------------------------------- C28
\* The second pass of applyForces with the pairs evaluated in the order
\* given by listing, a sequence of indices into AllPairs, from its k-th
\* entry on.
RECURSIVE ForcePassIn(_, _, _, _)
ForcePassIn(ps, edges, listing, k) ==
    IF k > Len(listing) THEN ps
    ELSE LET e == AllPairs[listing[k]]
             r == ApplyForceBetweenParticles(ps, e[1], e[2], config, edges,
                      particleClusterMap, clusterRepulsionStates,
                      clusterCenters)
         IN  ForcePassIn(r.particles, r.currentClusters, listing, k + 1)

\* The force accumulated on every body, as the acceleration it has gathered.
Accelerations(ps) == [i \in Ids |-> ps[i].acceleration]

\* The orders of evaluation tried on n pairs: every order of up to 3 pairs;
\* of more pairs, the reversed order and the orders that begin with a later
\* pair and wrap around.
PairOrders(n) ==
    IF n <= 3
    THEN {listing \in [1 .. n -> 1 .. n] :
             \A a, b \in 1 .. n : listing[a] = listing[b] => a = b}
    ELSE {[k \in 1 .. n |-> n + 1 - k]}
         \cup {[k \in 1 .. n |-> ((k + shift - 1) % n) + 1] : shift \in 1 .. n}

\* At the start of the force pass: in whatever order the pairs are
\* evaluated, every body gathers the same acceleration.
SameForcesInEveryOrder ==
    (pc = "forces" /\ pair = 1) =>
        \A listing \in PairOrders(Len(AllPairs)) :
            Accelerations(ForcePassIn(particles, currentClusters, listing, 1))
            = Accelerations(ForcePassIn(particles, currentClusters,
                                        [k \in 1 .. Len(AllPairs) |-> k], 1))

\* The evaluation of a pair adds to its two bodies the force computed from
\* the positions and masses the tick began with and from the cluster maps,
\* which the pass leaves alone; no other body gathers anything.
PairForceFromPassStart ==
    pc = "forces" =>
        LET i == AllPairs[pair][1]
            j == AllPairs[pair][2]
            f == PairForces(tickStart[i], tickStart[j], config,
                            particleClusterMap, clusterRepulsionStates,
                            clusterCenters)
            apart == tickStart[i].position # tickStart[j].position
        IN  /\ particles'[i].acceleration - particles[i].acceleration
                   = IF apart THEN TruncDiv(f.f1, tickStart[i].mass) ELSE 0
            /\ particles'[j].acceleration - particles[j].acceleration
                   = IF apart THEN TruncDiv(f.f2, tickStart[j].mass) ELSE 0
            /\ \A k \in Ids \ {i, j} :
                   particles'[k].acceleration = particles[k].acceleration
            /\ \A k \in Ids :
                   /\ particles'[k].position = tickStart[k].position
                   /\ particles'[k].mass = tickStart[k].mass
            /\ UNCHANGED << particleClusterMap, clusterRepulsionStates,
                            clusterCenters >>

\* C28: the force every body accumulates in the force pass is the same for
\* every order of evaluation of the pairs: the force of a pair depends on
\* the positions, the masses and the cluster maps fixed before the pass, not
\* on what the evaluation of an earlier pair changed on the bodies.
C28_ForcesOrderIndependent ==
    []SameForcesInEveryOrder /\ [][PairForceFromPassStart]_vars

\* C28 witness: in the middle of the force pass a body that began the tick
\* outside every cluster has been marked by an earlier pair and is about to
\* be evaluated, at a distance above 0, in a repulsion-active cluster.
C28_Witness ==
    /\ NextPairEvaluated
    /\ pair > 1
    /\ NextMode = "radial"
    /\ \E p \in {NextP1, NextP2} :
           /\ ~tickStart[p.id].inCluster
           /\ p.inCluster
           /\ p.shouldRepulse = FALSE

\* ------------------------------------------------------------------- C29
\* The second pass of applyForces on bodies ps with the given cluster maps,
\* from the k-th pair on.
RECURSIVE SecondPass(_, _, _, _, _, _)
SecondPass(ps, edges, map, states, centers, k) ==
    IF k > Len(AllPairs) THEN [particles |-> ps, currentClusters |-> edges]
    ELSE LET r == ApplyForceBetweenParticles(ps, AllPairs[k][1],
                      AllPairs[k][2], config, edges, map, states, centers)
         IN  SecondPass(r.particles, r.currentClusters, map, states, centers,
                        k + 1)

\* One whole update() on bodies ps with the edges previous kept from the
\* tick before: applyForces, then update on every body.
TickOf(ps, previous) ==
    LET edges == FirstPass(ps, config, Len(AllPairs))
        r == IdentifyDistinctClusters(ps, edges)
        pr == PropagateRepulsionInClusters(r.particles, r.particleClusterMap)
        passed == SecondPass(pr.particles, edges, r.particleClusterMap,
                             pr.clusterRepulsionStates, r.clusterCenters, 1)
        committed ==
            UpdateClusterCounts(
                [i \in Ids |-> CommitClusterStatus(passed.particles[i], config,
                                   r.particleClusterMap, r.clusterSizes)],
                passed.currentClusters, previous)
    IN  [i \in Ids |-> UpdateParticle(committed[i], config)]

\* The repulsion state of a body.
RepulsionState(p) ==
    << p.repulsionTimer, p.lastClusterSize, p.shouldRepulse >>

\* C29: between ticks, whatever the order of the bodies in the array (body
\* listing[k] listed at place k, with k as its id, and the kept edges
\* renamed alike), one tick leaves every body with the same repulsionTimer,
\* lastClusterSize and shouldRepulse.
C29_RepulsionStateOrderIndependent ==
    pc = "idle" =>
        LET here == TickOf(particles, previousClusters)
        IN  \A listing \in Permutations(Ids) :
                LET place == [i \in Ids |-> CHOOSE k \in Ids : listing[k] = i]
                    qs == [k \in Ids |-> [particles[listing[k]] EXCEPT !.id = k]]
                    previous == {ClusterID(place[e[1]], place[e[2]]) :
                                    e \in previousClusters}
                    there == TickOf(qs, previous)
                IN  \A k \in Ids :
                        RepulsionState(there[k]) = RepulsionState(here[listing[k]])

\* ------------------------------------------------------------------- C30
\* No tick is in progress while the simulation is not running, and the
\* bodies are those the next tick will start from.
StoppedBetweenTicks ==
    ~running => (pc = "idle" /\ tickStart = particles)

\* A step taken while the simulation is not running is start(), which
\* changes nothing but running, or initialize() / reset(), which leaves
\* running false; otherwise no body and no map or edge set of the force
\* system changes.
StoppedStep ==
    ~running =>
        /\ pc' = "idle"
        /\ \/ ResetStep
           \/ /\ particles' = particles
              /\ forceSystemVars' = forceSystemVars

\* The step that begins a tick is taken while running, from the bodies and
\* the kept edges as they stand.
TickBeginsFromCurrentState ==
    (pc = "idle" /\ pc' # "idle") =>
        /\ running
        /\ tickStart' = particles
        /\ previousClusters' = previousClusters
        /\ currentClusters' = FirstPass(particles, config, Len(AllPairs))

\* C30: while the simulation is not running no tick happens and no body
\* field, cluster map or kept edge set changes (a reset aside, which leaves
\* running false), and the ticks after start() go on from that very state.
C30_NoTickWhileStopped ==
    /\ []StoppedBetweenTicks
    /\ [][StoppedStep]_vars
    /\ [][TickBeginsFromCurrentState]_vars

\* The simulation is paused after ticks that formed a cluster.
C30_Witness ==
    /\ ~running
    /\ previousClusters # {}
    /\ \E i \in Ids : particles[i].inCluster /\ particles[i].clusterTime > 0

====
